---- MODULE Spec2Model ----
(***************************************************************************)
(* State-machine model of public/custom.js, the client-side augmentation   *)
(* layer of the EM Spark chat page.  The file holds two versions of the    *)
(* same script: version 1 (lines 4-278) and version 2 (lines 283-481).     *)
(* `variant` selects which of the two is the running script.               *)
(*                                                                         *)
(* The page is single threaded: every action below is one task of the      *)
(* event loop (a script run, a timer callback, a DOM event handler, a      *)
(* mutation-observer microtask, or one step of the host application or of  *)
(* the user).  Time is counted in units of 100 ms.                         *)
(***************************************************************************)
EXTENDS Integers, Sequences, FiniteSets, TLC

\* ---------------------------------------------------------------- bounds
\* steps taken by the environment: re-renders and attribute changes by the
\* host, clicks, edits, focus changes and keystrokes by the user
MaxEnvSteps == 3

\* ------------------------------------------------------ program constants
\* setTimeout delays, in units of 100 ms
SendDelay == 1
FocusDelay == 5
ReAddDelay == 5
InsertDelay == 10
ReadyDelay == 10
\* the quick-action catalog has four entries in both versions
NumEntries == 4

Variants == {1, 2}
Entries == 1..NumEntries
\* the entries the user activates
Activated == {1, 3}

\* data-query attributes (version 1) and ex.query fields (version 2)
Query(v, i) ==
  IF v = 1
  THEN CASE i = 1 -> "DAM yesterday"
         [] i = 2 -> "GDAM today"
         [] i = 3 -> "Compare Nov 2022, 2023, 2024"
         [] OTHER -> "Show detailed list for last week"
  ELSE CASE i = 1 -> "DAM rate for today"
         [] i = 2 -> "GDAM rate for yesterday"
         [] i = 3 -> "RTM rate for last hour"
         [] OTHER -> "Compare DAM and GDAM for today"

\* the guidance text setPlaceholder writes
Guidance(v) ==
  IF v = 1
  THEN "Ask about energy markets... e.g., 'DAM yesterday' or 'GDAM 20-50 slots Oct 2024'"
  ELSE "Ask about energy markets... e.g., 'DAM yesterday' or 'GDAM 20-50 slots'"

\* text typed by the user, and a placeholder written by the host
UserText == "typed by user"
HostPlaceholder == "host placeholder"

VARIABLES
  variant,      \* which version of the script runs
  boot,         \* "loading" | "complete": readyState when the script starts;
                \* "waiting": DOMContentLoaded listener registered; "done"
  textarea,     \* the element document.querySelector('textarea') resolves to
  focus,        \* document.activeElement: "textarea" | "other"
  anchor,       \* the element the panel is placed relative to is in the document
  panels,       \* number of elements with id 'quick-actions' in the document
  button,       \* the submit control: "absent" | "enabled" | "disabled"
  styles,       \* style elements appended to document.head
  listeners,    \* keydown listeners registered on document
  observers,    \* MutationObserver subscriptions
  intervals,    \* live setInterval(setPlaceholder, 1000) timers
  pending,      \* observers that hold undelivered mutation records
  timers,       \* pending setTimeout callbacks, in registration order
  clicks,       \* click() invocations on the attached submit control
  staleClicks,  \* click() invocations on a detached, earlier resolved control
  inputEvents,  \* synthetic bubbling 'input' events dispatched on the textarea
  envSteps,     \* counted host and user steps performed so far
  healing,      \* progress of a panel removal: "none" | "removed" | "delivered"
  deferral,     \* progress of an injection that found no anchor:
                \* "none" | "noop" | "anchored" | "delivered"
  op            \* the task that ran last

vars == <<variant, boot, textarea, focus, anchor, panels, button, styles,
          listeners, observers, intervals, pending, timers, clicks,
          staleClicks, inputEvents, envSteps, healing, deferral, op>>

\* ------------------------------------------------------------- elements
Absent == [present |-> FALSE, value |-> "", placeholder |-> "", marked |-> FALSE]
\* a textarea the host has just rendered
Fresh == [present |-> TRUE, value |-> "", placeholder |-> "", marked |-> FALSE]

\* a setTimeout entry; btn and text are the closure of sendMessage's callback
Timer(kind, rem, btn, text, en0) ==
  [kind |-> kind, rem |-> rem, btn |-> btn, text |-> text, en0 |-> en0]
Plain(kind, rem) == Timer(kind, rem, "none", "", FALSE)

Op(name, arg) == [name |-> name, arg |-> arg]

\* ------------------------------------------------ the script's functions
\* setPlaceholder deciding by the element alone, without the marker
setPlaceholder_ignoringMarker(t, v) ==
  IF t.present
  THEN [t EXCEPT !.placeholder = Guidance(v), !.marked = TRUE]
  ELSE t

\* setPlaceholder: writes the guidance text once per element, by the marker
setPlaceholder(t, v) ==
  IF t.present /\ ~t.marked
  THEN [t EXCEPT !.placeholder = Guidance(v), !.marked = TRUE]
  ELSE t

\* textarea.focus() behind `if (textarea)`
focusIfPresent(t, f) == IF t.present THEN "textarea" ELSE f

\* the id guard of addQuickActions: document.getElementById('quick-actions')
hasQuickActions(p) == p > 0

\* addQuickActions without the getElementById('quick-actions') guard
addQuickActions1_unguarded(p, a) == IF a THEN p + 1 ELSE p

\* version 1: guard, then insert into the resolved container in the same task
addQuickActions1(p, a) == IF ~hasQuickActions(p) /\ a THEN p + 1 ELSE p

\* version 2: the deferred callback inserts its own container when the
\* composer resolves; it does not look at the id again
insertDeferred(p, a) == IF a THEN p + 1 ELSE p

\* the injector got past the id guard (64-66, 340) and found no anchor to
\* insert at: the document stays as it is
unresolved(d, noop) == IF noop THEN "noop" ELSE d

\* the Escape branch without the document.activeElement test
escapeApplies_anyFocus(t, f) == t.present

\* the Escape branch of the keydown handler (version 1)
escapeApplies(t, f) == t.present /\ f = "textarea"

\* a selector that matches no submit control
resolveButton_noMatch(b) == "none"

\* the reference querySelector returns for the submit control
resolveButton(b) == IF b = "absent" THEN "none" ELSE "cur"

\* the delayed callback without the `!sendButton.disabled` test
sendOutcome_ignoringDisabled(ref, b) ==
  CASE ref = "none" -> "none"
    [] ref = "cur" -> "clicked"
    [] OTHER -> "stale"

\* sendMessage's delayed callback: what `sendButton && !sendButton.disabled`
\* followed by sendButton.click() does, given the captured reference
sendOutcome(ref, b) ==
  CASE ref = "none" -> "none"
    [] ref = "cur" -> IF b = "enabled" THEN "clicked" ELSE "disabled"
    [] ref = "staleEnabled" -> "stale"
    [] OTHER -> "disabled"

\* sendMessage without the `if (textarea)` guard
sendActs_unguarded(t) == TRUE

\* sendMessage only acts behind `if (textarea)`
sendActs(t) == t.present

\* Cmd/Ctrl+Enter (version 2): `if (button) button.click()`
submitShortcutClicks(b) == b # "absent"

\* the observer of version 1 watches document.body, that of version 2
\* document.documentElement; the style element goes into document.head
headObserved(v) == v = 2

\* observers whose record queue receives a structural change
notified(changed) == IF changed THEN observers ELSE pending

\* ------------------------------------------------------------ timer list
RECURSIVE firstDue(_, _)
firstDue(ts, i) ==
  IF i > Len(ts) THEN 0
  ELSE IF ts[i].rem = 0 THEN i ELSE firstDue(ts, i + 1)

without(ts, i) == [j \in 1..(Len(ts) - 1) |-> IF j < i THEN ts[j] ELSE ts[j + 1]]

\* a detached control keeps the disabled state it had when it was removed
detach(ts, b) ==
  [j \in 1..Len(ts) |->
     IF ts[j].btn = "cur"
     THEN [ts[j] EXCEPT !.btn = IF b = "enabled" THEN "staleEnabled" ELSE "staleDisabled"]
     ELSE ts[j]]

\* ---------------------------------------------------------------- onReady
\* updatePlaceholder, focusInput, addQuickActions, setupKeyboardShortcuts,
\* addWelcomeAnimation, observeChanges, in this order; `base` is the timer
\* list the task starts with, `after` what the caller registers afterwards
onReady(base, after) ==
  LET inserted == variant = 1 /\ addQuickActions1(panels, anchor) # panels
      deferred == variant = 2 /\ ~hasQuickActions(panels)
  IN /\ textarea' = setPlaceholder(textarea, variant)
     /\ intervals' = intervals + 1
     /\ timers' = base \o <<Plain("focus", FocusDelay)>>
                       \o (IF deferred THEN <<Plain("insert", InsertDelay)>> ELSE <<>>)
                       \o after
     /\ panels' = IF variant = 1 THEN addQuickActions1(panels, anchor) ELSE panels
     /\ listeners' = listeners + 1
     /\ styles' = styles + 1
     /\ pending' = notified(observers > 0 /\ (inserted \/ headObserved(variant)))
     /\ observers' = observers + 1
     /\ deferral' = unresolved(deferral,
                               variant = 1 /\ ~hasQuickActions(panels) /\ ~anchor)

\* -------------------------------------------------------------- bootstrap
\* the script starts either before the host has rendered anything or after
\* it has rendered the input field, the panel's anchor and the submit control
Init ==
  /\ variant \in Variants
  /\ boot \in {"loading", "complete"}
  /\ \/ /\ textarea = Absent
        /\ anchor = FALSE
        /\ button = "absent"
     \/ /\ textarea = Fresh
        /\ anchor = TRUE
        /\ button \in {"enabled", "disabled"}
  /\ focus = "other"
  /\ panels = 0
  /\ styles = 0
  /\ listeners = 0
  /\ observers = 0
  /\ intervals = 0
  /\ pending = 0
  /\ timers = <<>>
  /\ clicks = 0
  /\ staleClicks = 0
  /\ inputEvents = 0
  /\ envSteps = 0
  /\ healing = "none"
  /\ deferral = "none"
  /\ op = Op("Init", "")

\* the script's top level: onReady now or on DOMContentLoaded, and in
\* version 2 once more after one second
Bootstrap ==
  /\ boot \in {"loading", "complete"}
  /\ LET again == IF variant = 2 THEN <<Plain("onReady", ReadyDelay)>> ELSE <<>>
     IN IF boot = "complete"
        THEN /\ onReady(<<>>, again)
             /\ boot' = "done"
        ELSE /\ timers' = again
             /\ boot' = "waiting"
             /\ UNCHANGED <<textarea, intervals, panels, listeners, styles,
                            pending, observers, deferral>>
  /\ op' = Op("Bootstrap", "")
  /\ UNCHANGED <<variant, healing, focus, anchor, button, clicks, staleClicks,
                 inputEvents, envSteps>>

\* DOMContentLoaded fires: the listener registered by the script runs onReady
DOMContentLoaded ==
  /\ boot = "waiting"
  /\ pending = 0
  /\ onReady(timers, <<>>)
  /\ boot' = "done"
  /\ op' = Op("DOMContentLoaded", "")
  /\ UNCHANGED <<variant, healing, focus, anchor, button, clicks, staleClicks,
                 inputEvents, envSteps>>

started == boot \in {"waiting", "done"}

\* ------------------------------------------------------------------ time
\* 100 ms pass; no callback is overdue
Tick ==
  /\ started
  /\ pending = 0
  /\ timers # <<>>
  /\ \A i \in 1..Len(timers) : timers[i].rem > 0
  /\ timers' = [i \in 1..Len(timers) |-> [timers[i] EXCEPT !.rem = @ - 1]]
  /\ op' = Op("Tick", "")
  /\ UNCHANGED <<variant, healing, deferral, boot, textarea, focus, anchor, panels, button,
                 styles, listeners, observers, intervals, pending, clicks,
                 staleClicks, inputEvents, envSteps>>

\* the earliest due setTimeout callback runs
FireTimer ==
  /\ started
  /\ pending = 0
  /\ firstDue(timers, 1) # 0
  /\ LET i == firstDue(timers, 1)
         t == timers[i]
         rest == without(timers, i)
     IN CASE t.kind = "focus" ->
               \* focusInput's callback
               /\ focus' = focusIfPresent(textarea, focus)
               /\ timers' = rest
               /\ op' = Op("FireTimer", "focus")
               /\ UNCHANGED <<textarea, panels, styles, listeners, observers,
                              intervals, pending, clicks, staleClicks,
                              deferral>>
          [] t.kind = "addQuickActions" ->
               \* setTimeout(addQuickActions, 500) of the version 1 observer
               /\ panels' = addQuickActions1(panels, anchor)
               /\ pending' = notified(panels' # panels)
               /\ deferral' = unresolved(deferral,
                                         ~hasQuickActions(panels) /\ ~anchor)
               /\ timers' = rest
               /\ op' = Op("FireTimer", "addQuickActions")
               /\ UNCHANGED <<textarea, focus, styles, listeners, observers,
                              intervals, clicks, staleClicks>>
          [] t.kind = "insert" ->
               \* the deferred insertion of version 2's addQuickActions
               /\ panels' = insertDeferred(panels, anchor)
               /\ pending' = notified(panels' # panels)
               /\ deferral' = unresolved(deferral, ~anchor)
               /\ timers' = rest
               /\ op' = Op("FireTimer", "insert")
               /\ UNCHANGED <<textarea, focus, styles, listeners, observers,
                              intervals, clicks, staleClicks>>
          [] t.kind = "onReady" ->
               \* setTimeout(onReady, 1000) of version 2
               /\ onReady(rest, <<>>)
               /\ op' = Op("FireTimer", "onReady")
               /\ UNCHANGED <<focus, clicks, staleClicks>>
          [] OTHER ->
               \* sendMessage's delayed click
               /\ clicks' = IF sendOutcome(t.btn, button) = "clicked"
                            THEN clicks + 1 ELSE clicks
               /\ staleClicks' = IF sendOutcome(t.btn, button) = "stale"
                                 THEN staleClicks + 1 ELSE staleClicks
               /\ timers' = rest
               /\ op' = Op("FireTimer", sendOutcome(t.btn, button))
               /\ UNCHANGED <<textarea, focus, panels, styles, listeners,
                              observers, intervals, pending, deferral>>
  /\ UNCHANGED <<variant, healing, boot, anchor, button, inputEvents, envSteps>>

\* one of the setInterval(setPlaceholder, 1000) timers ticks; the phase of a
\* repeating timer is left open, so it may tick at any time between tasks
IntervalTick ==
  /\ started
  /\ pending = 0
  /\ intervals > 0
  /\ textarea' = setPlaceholder(textarea, variant)
  /\ op' = Op("IntervalTick", "")
  /\ UNCHANGED <<variant, healing, deferral, boot, focus, anchor, panels, button, styles,
                 listeners, observers, intervals, pending, timers, clicks,
                 staleClicks, inputEvents, envSteps>>

\* ------------------------------------------------------ mutation observer
\* version 1 callback: updatePlaceholder(), then re-add the panel if missing
callback1Timers(ts, p, runs) ==
  IF hasQuickActions(p) THEN ts
  ELSE ts \o [j \in 1..runs |-> Plain("addQuickActions", ReAddDelay)]

\* version 2 callback: updatePlaceholder() only for an unmarked textarea
callback2Updates(t) == t.present /\ ~t.marked

\* the microtask that delivers the queued records: every notified observer
\* runs its callback once
Deliver ==
  /\ pending > 0
  /\ textarea' = setPlaceholder(textarea, variant)
  /\ intervals' = IF variant = 1 THEN intervals + pending
                  ELSE IF callback2Updates(textarea) THEN intervals + 1
                  ELSE intervals
  /\ timers' = IF variant = 1 THEN callback1Timers(timers, panels, pending)
               ELSE timers
  /\ pending' = 0
  /\ healing' = IF healing = "removed" THEN "delivered" ELSE healing
  /\ deferral' = IF deferral = "anchored" THEN "delivered" ELSE deferral
  /\ op' = Op("Deliver", "")
  /\ UNCHANGED <<variant, boot, focus, anchor, panels, button, styles,
                 listeners, observers, clicks, staleClicks, inputEvents,
                 envSteps>>

\* ------------------------------------------------------- host application
\* The host re-renders at times of its own choosing.  A structural change
\* (a node added or removed) queues a record for every observer.
HostRenderTextarea ==
  /\ started /\ pending = 0 /\ envSteps < MaxEnvSteps
  /\ \E t \in {Absent, Fresh} :
       /\ textarea.present \/ t.present
       /\ textarea' = t
  /\ focus' = IF focus = "textarea" THEN "other" ELSE focus
  /\ pending' = notified(TRUE)
  /\ envSteps' = envSteps + 1
  /\ op' = Op("HostRenderTextarea", "")
  /\ UNCHANGED <<variant, healing, deferral, boot, anchor, panels, button, styles, listeners,
                 observers, intervals, timers, clicks, staleClicks,
                 inputEvents>>

\* version 1 puts the panel inside its anchor (afterbegin), version 2 next
\* to it (beforebegin): removing the anchor takes the panel along in version 1
HostRenderAnchor ==
  /\ started /\ pending = 0 /\ envSteps < MaxEnvSteps
  /\ anchor' = ~anchor
  /\ panels' = IF anchor /\ variant = 1 THEN 0 ELSE panels
  /\ pending' = notified(TRUE)
  /\ envSteps' = envSteps + 1
  /\ healing' = "none"
  /\ deferral' = IF ~anchor /\ deferral = "noop" /\ observers > 0
                 THEN "anchored" ELSE "none"
  /\ op' = Op("HostRenderAnchor", "")
  /\ UNCHANGED <<variant, boot, textarea, focus, button, styles, listeners,
                 observers, intervals, timers, clicks, staleClicks,
                 inputEvents>>

HostRemovePanel ==
  /\ started /\ pending = 0 /\ envSteps < MaxEnvSteps
  /\ panels > 0
  /\ panels' = panels - 1
  /\ pending' = notified(TRUE)
  /\ envSteps' = envSteps + 1
  /\ healing' = IF anchor /\ panels = 1 THEN "removed" ELSE "none"
  /\ deferral' = "none"
  /\ op' = Op("HostRemovePanel", "")
  /\ UNCHANGED <<variant, boot, textarea, focus, anchor, button, styles,
                 listeners, observers, intervals, timers, clicks,
                 staleClicks, inputEvents>>

\* the submit control is removed, added or replaced by a new node
HostRenderButton ==
  /\ started /\ pending = 0 /\ envSteps < MaxEnvSteps
  /\ \E b \in {"absent", "enabled", "disabled"} :
       /\ button # "absent" \/ b # "absent"
       /\ button' = b
  /\ timers' = detach(timers, button)
  /\ pending' = notified(TRUE)
  /\ envSteps' = envSteps + 1
  /\ op' = Op("HostRenderButton", "")
  /\ UNCHANGED <<variant, healing, deferral, boot, textarea, focus, anchor, panels, styles,
                 listeners, observers, intervals, clicks, staleClicks,
                 inputEvents>>

\* attribute changes are not structural: no observer is notified
HostSetDisabled ==
  /\ started /\ pending = 0 /\ envSteps < MaxEnvSteps
  /\ button # "absent"
  /\ button' = IF button = "enabled" THEN "disabled" ELSE "enabled"
  /\ envSteps' = envSteps + 1
  /\ op' = Op("HostSetDisabled", "")
  /\ UNCHANGED <<variant, healing, deferral, boot, textarea, focus, anchor, panels, styles,
                 listeners, observers, intervals, pending, timers, clicks,
                 staleClicks, inputEvents>>

HostSetPlaceholder ==
  /\ started /\ pending = 0 /\ envSteps < MaxEnvSteps
  /\ textarea.present
  /\ textarea.placeholder # HostPlaceholder
  /\ textarea' = [textarea EXCEPT !.placeholder = HostPlaceholder]
  /\ envSteps' = envSteps + 1
  /\ op' = Op("HostSetPlaceholder", "")
  /\ UNCHANGED <<variant, healing, deferral, boot, focus, anchor, panels, button, styles,
                 listeners, observers, intervals, pending, timers, clicks,
                 staleClicks, inputEvents>>

HostClearMarker ==
  /\ started /\ pending = 0 /\ envSteps < MaxEnvSteps
  /\ textarea.present /\ textarea.marked
  /\ textarea' = [textarea EXCEPT !.marked = FALSE]
  /\ envSteps' = envSteps + 1
  /\ op' = Op("HostClearMarker", "")
  /\ UNCHANGED <<variant, healing, deferral, boot, focus, anchor, panels, button, styles,
                 listeners, observers, intervals, pending, timers, clicks,
                 staleClicks, inputEvents>>

\* ------------------------------------------------------------------- user
UserType ==
  /\ started /\ pending = 0 /\ envSteps < MaxEnvSteps
  /\ textarea.present /\ focus = "textarea"
  /\ \E v \in {"", UserText} :
       /\ v # textarea.value
       /\ textarea' = [textarea EXCEPT !.value = v]
  /\ envSteps' = envSteps + 1
  /\ op' = Op("UserType", "")
  /\ UNCHANGED <<variant, healing, deferral, boot, focus, anchor, panels, button, styles,
                 listeners, observers, intervals, pending, timers, clicks,
                 staleClicks, inputEvents>>

UserFocus ==
  /\ started /\ pending = 0 /\ envSteps < MaxEnvSteps
  /\ \E f \in {"textarea", "other"} :
       /\ f # focus
       /\ f = "textarea" => textarea.present
       /\ focus' = f
  /\ envSteps' = envSteps + 1
  /\ op' = Op("UserFocus", "")
  /\ UNCHANGED <<variant, healing, deferral, boot, textarea, anchor, panels, button, styles,
                 listeners, observers, intervals, pending, timers, clicks,
                 staleClicks, inputEvents>>

\* sendMessage(text) of version 1, up to its setTimeout
sendMessage(text) ==
  IF sendActs(textarea)
  THEN /\ textarea' = [textarea EXCEPT !.value = text]
       /\ inputEvents' = inputEvents + 1
       /\ focus' = "textarea"
       /\ timers' = Append(timers, Timer("send", SendDelay, resolveButton(button),
                                         text, button = "enabled"))
  ELSE /\ focus' = "other"
       /\ UNCHANGED <<textarea, inputEvents, timers>>

\* btn.onclick of version 2: value, focus, input event; no submit
onclick2(text) ==
  IF textarea.present
  THEN /\ textarea' = [textarea EXCEPT !.value = text]
       /\ inputEvents' = inputEvents + 1
       /\ focus' = "textarea"
       /\ UNCHANGED timers
  ELSE /\ focus' = "other"
       /\ UNCHANGED <<textarea, inputEvents, timers>>

\* the user activates a button of a panel in the document; the click moves
\* the focus to that button before the handler runs
ClickQuickAction ==
  /\ started /\ pending = 0 /\ envSteps < MaxEnvSteps
  /\ panels > 0
  /\ \E i \in Activated :
       /\ IF variant = 1 THEN sendMessage(Query(variant, i))
                         ELSE onclick2(Query(variant, i))
       /\ op' = Op("ClickQuickAction", Query(variant, i))
  /\ envSteps' = envSteps + 1
  /\ UNCHANGED <<variant, healing, deferral, boot, anchor, panels, button, styles, listeners,
                 observers, intervals, pending, clicks, staleClicks>>

\* keydown: every registered listener runs the handler of its version
KeyCmdK ==
  /\ started /\ pending = 0 /\ envSteps < MaxEnvSteps
  /\ listeners > 0
  /\ focus' = focusIfPresent(textarea, focus)
  /\ envSteps' = envSteps + 1
  /\ op' = Op("KeyCmdK", "")
  /\ UNCHANGED <<variant, healing, deferral, boot, textarea, anchor, panels, button, styles,
                 listeners, observers, intervals, pending, timers, clicks,
                 staleClicks, inputEvents>>

KeyEscape ==
  /\ started /\ pending = 0 /\ envSteps < MaxEnvSteps
  /\ IF variant = 1 /\ listeners > 0 /\ escapeApplies(textarea, focus)
     THEN /\ textarea' = [textarea EXCEPT !.value = ""]
          /\ focus' = "other"
     ELSE UNCHANGED <<textarea, focus>>
  /\ envSteps' = envSteps + 1
  /\ op' = Op("KeyEscape", "")
  /\ UNCHANGED <<variant, healing, deferral, boot, anchor, panels, button, styles, listeners,
                 observers, intervals, pending, timers, clicks, staleClicks,
                 inputEvents>>

KeyCmdEnter ==
  /\ started /\ pending = 0 /\ envSteps < MaxEnvSteps
  /\ clicks' = IF variant = 2 /\ submitShortcutClicks(button)
               THEN clicks + listeners ELSE clicks
  /\ envSteps' = envSteps + 1
  /\ op' = Op("KeyCmdEnter", "")
  /\ UNCHANGED <<variant, healing, deferral, boot, textarea, focus, anchor, panels, button,
                 styles, listeners, observers, intervals, pending, timers,
                 staleClicks, inputEvents>>

\* ---------------------------------------------------------- specification
Next ==
  \/ Bootstrap
  \/ DOMContentLoaded
  \/ Tick
  \/ FireTimer
  \/ IntervalTick
  \/ Deliver
  \/ HostRenderTextarea
  \/ HostRenderAnchor
  \/ HostRemovePanel
  \/ HostRenderButton
  \/ HostSetDisabled
  \/ HostSetPlaceholder
  \/ HostClearMarker
  \/ UserType
  \/ UserFocus
  \/ ClickQuickAction
  \/ KeyCmdK
  \/ KeyEscape
  \/ KeyCmdEnter

Spec == Init /\ [][Next]_vars

\* the script runs and the document finishes loading; the event loop runs
\* every due setTimeout callback, delivers every queued mutation record and
\* keeps the setInterval timers ticking; time passes
FairSpec ==
  /\ Spec
  /\ WF_vars(Bootstrap) /\ WF_vars(DOMContentLoaded)
  /\ WF_vars(Deliver) /\ WF_vars(Tick) /\ WF_vars(FireTimer)
  /\ WF_vars(IntervalTick)

\* each version of the script on its own
SpecV1 == (Init /\ variant = 1) /\ [][Next]_vars
SpecV2 == (Init /\ variant = 2) /\ [][Next]_vars

\* ------------------------------------------------------------------ claims
\* the setTimeout callback that runs in a FireTimer step taken from this state
dueTimer == timers[firstDue(timers, 1)]
firesSend == firstDue(timers, 1) # 0 /\ dueTimer.kind = "send"

\* no task that could still insert a panel is pending
panelWorkDone ==
  /\ pending = 0
  /\ \A i \in 1..Len(timers) :
       timers[i].kind \notin {"addQuickActions", "insert", "onReady"}

\* C1: the document never holds more than one element with id
\* 'quick-actions', whatever sequence of addQuickActions calls, mutation
\* batches, timer callbacks and host removals has run, in both versions.
C1_AtMostOnePanel == panels <= 1

\* C2: once the host has removed the only panel while the anchor stays in
\* the document, one mutation batch has been delivered and the work the
\* callback deferred has run, the document holds exactly one panel again.
C2_SelfHealing == (healing = "delivered" /\ panelWorkDone) => panels = 1

\* C8: one MutationObserver subscription at most, and exactly one once the
\* bootstrap has run, however often onReady runs.
C8_SingleObserver == observers <= 1 /\ (boot = "done" => observers = 1)

\* C9: the keydown listener is registered once for the page's lifetime, so
\* one keydown runs the handler once, however often onReady runs.
C9_SingleListener == listeners <= 1

\* C10: a platform-modifier+Enter keydown clicks the submit control only if
\* the control is present and not disabled at the time of the keystroke.
C10_SubmitShortcutRespectsDisabled ==
  [][(op'.name = "KeyCmdEnter" /\ button # "enabled") => clicks' = clicks]_vars

\* what a task leaves alone when it does not touch the document
DomTree == <<textarea, anchor, panels, button, styles>>
allClicks == clicks + staleClicks
isSendCall == op'.name = "ClickQuickAction" /\ variant = 1
isSendFire == op'.name = "FireTimer" /\ firesSend
\* the control the due callback captured is enabled now
capturedEnabled ==
  \/ dueTimer.btn = "cur" /\ button = "enabled"
  \/ dueTimer.btn = "staleEnabled"

\* C3 as stated: a sendMessage call made while the input field is present
\* and the submit control is enabled ends in exactly one click.
C3_ClickWheneverEnabledAtCall ==
  [][(isSendFire /\ dueTimer.en0) => allClicks' = allClicks + 1]_vars

\* C3, amended: sendMessage(text) with the input field present sets the
\* value to text, dispatches one input event, clicks nothing in the same
\* task and registers one callback SendDelay ahead for the control it
\* resolved; that callback clicks the control once if the control is enabled
\* when the delay has elapsed and not at all otherwise; nothing else in
\* version 1 clicks.
C3_DispatcherContract ==
  [][ /\ (isSendCall /\ textarea.present) =>
           /\ textarea'.value = op'.arg
           /\ inputEvents' = inputEvents + 1
           /\ allClicks' = allClicks
           /\ Len(timers') = Len(timers) + 1
           /\ timers'[Len(timers')].kind = "send"
           /\ timers'[Len(timers')].rem = SendDelay
           /\ timers'[Len(timers')].btn = (IF button = "absent" THEN "none" ELSE "cur")
           /\ \A i \in 1..Len(timers) : timers'[i] = timers[i]
      /\ isSendFire =>
           /\ dueTimer.rem = 0
           /\ allClicks' = allClicks + (IF capturedEnabled THEN 1 ELSE 0)
           /\ textarea' = textarea
           /\ inputEvents' = inputEvents
      /\ (variant = 1 /\ allClicks' # allClicks) => isSendFire
    ]_vars

\* a callback of sendMessage has run and clicked the submit control
C3_Witness ==
  /\ op = Op("FireTimer", "clicked")
  /\ clicks = 1 /\ inputEvents = 1
  /\ textarea.present /\ textarea.value = Query(1, 3)

\* C4: when the delay elapses with the submit control disabled, the callback
\* clicks nothing, leaves the input field (holding the text since the call)
\* as it is and schedules nothing further.
C4_DisabledSubmitNoClick ==
  [][ /\ (isSendFire /\ button = "disabled") => clicks' = clicks
      /\ (isSendFire /\ ~capturedEnabled) =>
           /\ allClicks' = allClicks
           /\ textarea' = textarea
           /\ timers' = without(timers, firstDue(timers, 1))
      /\ (isSendCall /\ textarea.present) => textarea'.value = op'.arg
    ]_vars

\* the delay of a call has elapsed on a disabled control: text in the field,
\* no click, nothing pending
C4_Witness ==
  /\ op = Op("FireTimer", "disabled")
  /\ button = "disabled"
  /\ textarea.present /\ textarea.value = Query(1, 1)
  /\ inputEvents = 1 /\ allClicks = 0
  /\ \A i \in 1..Len(timers) : timers[i].kind # "send"

\* tasks that invoke the placeholder maintainer
isMaintainerRun ==
  \/ op'.name \in {"DOMContentLoaded", "IntervalTick", "Deliver"}
  \/ op'.name = "Bootstrap" /\ boot = "complete"
  \/ op' = Op("FireTimer", "onReady")

\* C5: a marked input field keeps its value and placeholder through every
\* run of the placeholder maintainer; the maintainer decides by the marker
\* alone: an unmarked field gets the guidance text whatever it holds.
C5_PlaceholderNonClobbering ==
  [][ isMaintainerRun =>
        /\ (textarea.present /\ textarea.marked) => textarea' = textarea
        /\ textarea'.value = textarea.value
        /\ (textarea.present /\ ~textarea.marked) =>
             textarea' = [textarea EXCEPT !.placeholder = Guidance(variant),
                                          !.marked = TRUE]
    ]_vars

\* the maintainer has run on a marked field whose value and placeholder
\* were changed after the marker was set
C5_Witness ==
  /\ op.name \in {"IntervalTick", "Deliver"}
  /\ textarea.present /\ textarea.marked
  /\ textarea.value # ""
  /\ textarea.placeholder = HostPlaceholder

\* C6: an operation whose target element is absent changes neither the
\* element tree nor the input value nor the click counts, and a sendMessage
\* without an input field schedules no click.
C6_AbsentTargetSafety ==
  [][ /\ ( /\ ~textarea.present
           /\ \/ op'.name \in {"IntervalTick", "Deliver", "KeyCmdK", "KeyEscape"}
              \/ op' = Op("FireTimer", "focus") ) =>
             /\ DomTree' = DomTree
             /\ focus' = focus
             /\ allClicks' = allClicks
             /\ op'.name \notin {"FireTimer", "Deliver"} => timers' = timers
      /\ (op'.name = "ClickQuickAction" /\ ~textarea.present) =>
             /\ DomTree' = DomTree
             /\ allClicks' = allClicks
             /\ inputEvents' = inputEvents
             /\ timers' = timers
      /\ (op'.name = "KeyCmdEnter" /\ button = "absent") =>
             /\ DomTree' = DomTree
             /\ allClicks' = allClicks
      /\ ( /\ ~anchor
           /\ op' \in {Op("FireTimer", "addQuickActions"), Op("FireTimer", "insert")} ) =>
             /\ DomTree' = DomTree
             /\ allClicks' = allClicks
             /\ pending' = pending
    ]_vars

\* a quick action was activated with no input field while the submit
\* control was there and enabled
C6_Witness ==
  /\ op.name = "ClickQuickAction"
  /\ ~textarea.present
  /\ button = "enabled"
  /\ timers = <<>>
  /\ allClicks = 0 /\ inputEvents = 0

\* C7: Escape changes the input field or the focus only when the input field
\* is the active element; then (version 1) it clears the value and blurs.
C7_EscapeScoping ==
  [][ op'.name = "KeyEscape" =>
        /\ ~(textarea.present /\ focus = "textarea") =>
             (textarea' = textarea /\ focus' = focus)
        /\ (variant = 1 /\ listeners > 0 /\ textarea.present /\ focus = "textarea") =>
             (textarea' = [textarea EXCEPT !.value = ""] /\ focus' = "other")
        /\ DomTree' = <<textarea', anchor, panels, button, styles>>
        /\ allClicks' = allClicks
    ]_vars

\* Escape was pressed while the field held text and another element had focus
C7_Witness ==
  /\ op.name = "KeyEscape"
  /\ variant = 1 /\ listeners = 1
  /\ textarea.present /\ textarea.value # ""
  /\ focus = "other"

\* C11: the callback of sendMessage clicks the submit control that is in the
\* document when the delay elapses: never a node the host has detached since
\* the call, and always the attached control when it is enabled, also when
\* that control was rendered only during the delay.
C11_FreshSubmitResolution ==
  [][ isSendFire =>
        /\ staleClicks' = staleClicks
        /\ button = "enabled" => clicks' = clicks + 1
    ]_vars

\* C12: activating a quick-action button while the input field is present
\* and the submit control is enabled runs the Message Dispatcher with the
\* entry's query: the value becomes the query, one input event is
\* dispatched, and the callback that submits is registered SendDelay ahead.
C12_QuickActionForwarding ==
  [][ ( /\ op'.name = "ClickQuickAction"
        /\ textarea.present
        /\ button = "enabled" ) =>
          /\ op'.arg \in {Query(variant, i) : i \in Entries}
          /\ textarea'.value = op'.arg
          /\ inputEvents' = inputEvents + 1
          /\ Len(timers') = Len(timers) + 1
          /\ timers'[Len(timers')] = Timer("send", SendDelay, "cur", op'.arg, TRUE)
    ]_vars

\* C13: once addQuickActions has run without an anchor (leaving the document
\* as it was), the host has then rendered the anchor under a live
\* MutationObserver, the batch has been delivered and the work the callback
\* deferred has run, the document holds exactly one panel.
C13_DeferredInjection == (deferral = "delivered" /\ panelWorkDone) => panels = 1

\* C14: at most one setInterval timer of the placeholder maintainer is live
\* in any reachable state, however many mutation batches have been delivered
\* and however often the host has replaced the input field.
C14_NoTimerLeak == intervals <= 1

\* the element tree: which nodes are in the document
structure == <<textarea.present, anchor, panels, button, styles>>
\* no mutation record is undelivered and no setTimeout callback is pending
quiescent == pending = 0 /\ timers = <<>>

\* C15: the observer callback changes no element of the tree, and when the
\* panel is in the document (as after the script's own insertion) it
\* schedules nothing; a scheduled addQuickActions that finds the panel
\* inserts nothing and notifies no one; so once the host and the user have
\* stopped, the system becomes quiescent and stays so.
C15_BoundedReentrancy ==
  /\ [][ /\ op'.name = "Deliver" =>
              /\ structure' = structure
              /\ pending' = 0
              /\ hasQuickActions(panels) => timers' = timers
         /\ (op' = Op("FireTimer", "addQuickActions") /\ hasQuickActions(panels)) =>
              /\ structure' = structure
              /\ pending' = 0
       ]_vars
  /\ <>[]quiescent

\* the script has put the panel back after a removal, the batch of that
\* insertion has been delivered, and nothing is pending
C15_Witness ==
  /\ op.name = "Deliver"
  /\ healing = "delivered"
  /\ envSteps = 1
  /\ panels = 1
  /\ quiescent

\* the input field with its marker and the panel are in the document: the
\* host's last render removed nothing the script maintains
nothingRemoved == textarea.present /\ textarea.marked /\ hasQuickActions(panels)
\* everything the script can change
scriptState == <<textarea, focus, panels, styles, listeners, observers,
                 intervals, timers, clicks, staleClicks, inputEvents>>

\* C16: a mutation batch or an interval tick that finds an unmarked input
\* field sets the guidance placeholder and the marker on it; every unmarked
\* input field is eventually marked or leaves the document; and a batch
\* delivered when nothing was removed changes nothing.
C16_PlaceholderRestoration ==
  /\ [][ /\ ( /\ op'.name \in {"Deliver", "IntervalTick"}
              /\ textarea.present /\ ~textarea.marked ) =>
                textarea' = [textarea EXCEPT !.placeholder = Guidance(variant),
                                             !.marked = TRUE]
         /\ (op'.name = "Deliver" /\ nothingRemoved) => scriptState' = scriptState
       ]_vars
  /\ (textarea.present /\ ~textarea.marked) ~> (textarea.marked \/ ~textarea.present)

\* C16 without its last clause: restoration by the next batch or tick, and
\* eventual marking
C16_Restoration ==
  /\ [][ ( /\ op'.name \in {"Deliver", "IntervalTick"}
           /\ textarea.present /\ ~textarea.marked ) =>
             textarea' = [textarea EXCEPT !.placeholder = Guidance(variant),
                                          !.marked = TRUE]
       ]_vars
  /\ (textarea.present /\ ~textarea.marked) ~> (textarea.marked \/ ~textarea.present)

\* C17: whenever the callback of sendMessage(text) clicks the submit control,
\* the input field is in the document and its value is that text.
C17_SubmittedTextMatches ==
  [][ (isSendFire /\ allClicks' # allClicks) =>
        (textarea.present /\ textarea.value = dueTimer.text)
    ]_vars

====
